---- MODULE Spec2Model ----
(***************************************************************************)
(* Model of mainCode/slice_recordings.py.                                  *)
(*                                                                         *)
(* Two state machines share this module:                                   *)
(*   Spec       the slicer, slice_noise_reduced_audio_files_byt, run on    *)
(*              one energy envelope: validity test, normalisation, the     *)
(*              left and right expansion loops, the lexical extension and  *)
(*              the returned triple;                                       *)
(*   BatchSpec  main / copy_directory_with_wav_processing /                *)
(*              process_wav_file, run over one directory listing.          *)
(*                                                                         *)
(* Frame indices are 0-based as in the Python code; the envelope is a TLA+ *)
(* sequence, so frame i is rms_sound[i + 1].  Energies and thresholds are  *)
(* exact rationals <<numerator, denominator>> with a positive denominator. *)
(* Times in the batch machine are integers in hundredths of a second.      *)
(***************************************************************************)
EXTENDS FiniteSets, Integers, Sequences, TLC

\* ------------------------------------------------------------------------
\* Program constants
\* ------------------------------------------------------------------------
FRAME_SIZE == 1024
HOP_LENGTH == 256
THRESHOLD == <<15, 1000>>
THRESHOLD_END == <<15, 1000>>
MAX_PAUSE_FRAMES == 20
NORMALIZE_RMS == TRUE
END_EXTENSION == 12

\* ------------------------------------------------------------------------
\* Bounds of the model
\* ------------------------------------------------------------------------
MaxRuns == 3
MaxLevel == 2
MaxFiles == 2

\* ------------------------------------------------------------------------
\* Characters and words.  A character is a base letter with a case and an
\* accent mark, so that str.lower and unidecode are real conversions.
\* ------------------------------------------------------------------------
Chr(b, u, a) == [base |-> b, upper |-> u, accent |-> a]

Lower(c) == [c EXCEPT !.upper = FALSE]

Unidecode(c) == [c EXCEPT !.accent = FALSE]

\* unidecode(key).lower() of main
NormalizeKey(w) == [i \in 1..Len(w) |-> Lower(Unidecode(w[i]))]

Word_no == <<Chr("n", FALSE, FALSE), Chr("o", FALSE, FALSE)>>
Word_No == <<Chr("n", TRUE, FALSE), Chr("o", FALSE, FALSE)>>
Word_noAcute == <<Chr("n", FALSE, FALSE), Chr("o", FALSE, TRUE)>>
Word_NoAcute == <<Chr("n", TRUE, FALSE), Chr("o", FALSE, TRUE)>>
Word_en == <<Chr("e", FALSE, FALSE), Chr("n", FALSE, FALSE)>>
Word_un == <<Chr("u", FALSE, FALSE), Chr("n", FALSE, FALSE)>>

\* target words handed to the slicer
SliceWords == {Word_no, Word_noAcute, Word_en}

\* word[-1] != 'a' and word[-1] != 'e' and ... and word[-1] != 'u'
EndsWithoutVowel(w) ==
    LET c == w[Len(w)]
    IN  /\ c # Chr("a", FALSE, FALSE)
        /\ c # Chr("e", FALSE, FALSE)
        /\ c # Chr("i", FALSE, FALSE)
        /\ c # Chr("o", FALSE, FALSE)
        /\ c # Chr("u", FALSE, FALSE)

\* ------------------------------------------------------------------------
\* Rational arithmetic on <<num, den>> pairs, den > 0
\* ------------------------------------------------------------------------
Gt(a, b) == a[1] * b[2] > b[1] * a[2]

Lt(a, b) == a[1] * b[2] < b[1] * a[2]

\* ------------------------------------------------------------------------
\* Envelopes: the rms values of librosa.feature.rms, as integer levels,
\* generated from run-length descriptions so that pauses both shorter and
\* not shorter than MAX_PAUSE_FRAMES occur.
\* ------------------------------------------------------------------------
RunLens == {1, MAX_PAUSE_FRAMES - 1, MAX_PAUSE_FRAMES}

\* quiet runs (level 0) may be long, louder frames come one at a time
RunT ==
    { [level |-> 0, len |-> l] : l \in RunLens }
        \cup { [level |-> v, len |-> 1] : v \in 1..MaxLevel }

RunSeqs ==
    UNION { { rs \in [1..k -> RunT] :
                \A i \in 1..(k - 1) : rs[i].level # rs[i + 1].level }
            : k \in 1..MaxRuns }

RECURSIVE Expand(_)
Expand(rs) ==
    IF rs = <<>> THEN <<>>
    ELSE [i \in 1..rs[1].len |-> rs[1].level] \o Expand(Tail(rs))

Envelopes == { Expand(rs) : rs \in RunSeqs }

ThresholdValues == {THRESHOLD, <<1, 2>>, <<3, 2>>}

\* np.max / np.min of the envelope
RECURSIVE SeqMax(_)
SeqMax(s) ==
    IF Len(s) = 1 THEN s[1]
    ELSE LET m == SeqMax(Tail(s)) IN IF s[1] >= m THEN s[1] ELSE m

RECURSIVE SeqMin(_)
SeqMin(s) ==
    IF Len(s) = 1 THEN s[1]
    ELSE LET m == SeqMin(Tail(s)) IN IF s[1] <= m THEN s[1] ELSE m

\* (rms_sound - min) / (max - min) when normalising, rms_sound otherwise
NormalizeRms(s, normalize) ==
    IF normalize
    THEN [i \in 1..Len(s) |-> <<s[i] - SeqMin(s), SeqMax(s) - SeqMin(s)>>]
    ELSE [i \in 1..Len(s) |-> <<s[i], 1>>]

\* an argmax that returns the last occurrence of the maximum
ArgMaxLast(s) ==
    CHOOSE i \in 0..(Len(s) - 1) :
        /\ \A j \in 1..Len(s) : ~Gt(s[j], s[i + 1])
        /\ \A j \in (i + 2)..Len(s) : Gt(s[i + 1], s[j])

\* np.argmax: 0-based index of the first occurrence of the maximum
ArgMax(s) ==
    CHOOSE i \in 0..(Len(s) - 1) :
        /\ \A j \in 1..Len(s) : ~Gt(s[j], s[i + 1])
        /\ \A j \in 1..i : Gt(s[i + 1], s[j])

\* a left probe that also counts frames equal to the threshold
RECURSIVE ProbeLeftAtOrBelow(_, _, _, _)
ProbeLeftAtOrBelow(s, st, thr, c) ==
    IF st - c >= 0 /\ ~Gt(s[st - c + 1], thr) /\ c < MAX_PAUSE_FRAMES
    THEN ProbeLeftAtOrBelow(s, st, thr, c + 1)
    ELSE c

\* inner while of the left expansion (line 93), started with count = c
RECURSIVE ProbeLeft(_, _, _, _)
ProbeLeft(s, st, thr, c) ==
    IF st - c >= 0 /\ Lt(s[st - c + 1], thr) /\ c < MAX_PAUSE_FRAMES
    THEN ProbeLeft(s, st, thr, c + 1)
    ELSE c

\* inner while of the right expansion (line 108), started with count = c
RECURSIVE ProbeRight(_, _, _, _)
ProbeRight(s, en, thr, c) ==
    IF en + c < Len(s) /\ Lt(s[en + c + 1], thr) /\ c < MAX_PAUSE_FRAMES
    THEN ProbeRight(s, en, thr, c + 1)
    ELSE c

\* the lexical extension without the clamp of lines 118-119
ExtendEndUnclamped(en, size, w) ==
    IF EndsWithoutVowel(w) THEN en + END_EXTENSION ELSE en

\* lines 116-119: the lexical extension of end
ExtendEnd(en, size, w) ==
    IF EndsWithoutVowel(w)
    THEN IF en + END_EXTENSION >= size THEN size - 1 ELSE en + END_EXTENSION
    ELSE en

\* lengths, in samples, of clips whose envelope has n frames
\* (librosa.feature.rms, centred: n = 1 + len(y) // HOP_LENGTH): the
\* shortest, the longest and one in between
ClipLengths(n) ==
    { (n - 1) * HOP_LENGTH + r : r \in {0, 100, HOP_LENGTH - 1} }

\* Python index into t = frames_to_time(range(len(reduced_noise))), which
\* has len entries: a negative index counts from the end
TimeIndex(i, len) == IF i < 0 THEN len + i ELSE i

Invalid == [sound |-> -1, onset |-> -1, total_duration |-> -1]

\* lines 121-123; onset and total_duration in units of HOP_LENGTH / sr
SliceResult(st, en, len) ==
    [sound |-> <<st * HOP_LENGTH, en * HOP_LENGTH + FRAME_SIZE>>,
     onset |-> TimeIndex(st, len),
     total_duration |-> TimeIndex(en, len) - TimeIndex(st, len)]

\* ------------------------------------------------------------------------
\* State
\* ------------------------------------------------------------------------
VARIABLES
    samples,        \* len(audio_file), also len(reduced_noise)
    rms_raw,        \* rms_sound as computed on line 70
    rms_sound,      \* rms_sound after line 78
    threshold, threshold_end, normalize_rms, word,   \* the slicer's arguments
    middle, start, end, flag, count,                 \* the slicer's locals
    pc,             \* position in the slicer
    ret             \* the slicer's return value

svars == <<samples, rms_raw, rms_sound, threshold, threshold_end,
           normalize_rms, word, middle, start, end, flag, count, pc, ret>>

VARIABLES
    stimuli,        \* the rows of the stimuli table
    stimuli_ok,     \* whether the stimuli table exists at stimuli_path
    source_ok,      \* whether source_directory exists
    destination_exists,  \* whether destination_directory already exists
    files,          \* the files of source_directory, in os.walk order
    robot_times,    \* main's dictionary of reference durations
    pos,            \* number of files of the walk already visited
    file_count,     \* count of copy_directory_with_wav_processing
    slice_features, \* the DataFrame of feature rows
    written,        \* the output files written by sf.write
    last_ret,       \* the last value returned by process_wav_file
    csv,            \* the report written by to_csv (once bpc is "done")
    bpc,            \* position in main
    error           \* the exception that ended main

bvars == <<stimuli, stimuli_ok, source_ok, destination_exists, files,
           robot_times, pos, file_count, slice_features, written, last_ret,
           csv, bpc, error>>

vars == <<svars, bvars>>

Size == Len(rms_sound)

Rms(i) == rms_sound[i + 1]

\* ------------------------------------------------------------------------
\* The slicer
\* ------------------------------------------------------------------------

\* lines 73-74: the recording is not valid
ReturnInvalid ==
    /\ pc = "rms"
    /\ SeqMax(rms_raw) - SeqMin(rms_raw) = 0
    /\ ret' = Invalid
    /\ pc' = "returned"
    /\ UNCHANGED <<samples, rms_raw, rms_sound, threshold, threshold_end,
                   normalize_rms, word, middle, start, end, flag, count>>
    /\ UNCHANGED bvars

\* lines 77-87: normalise, find the loudest frame, start the left expansion
FindMiddle ==
    /\ pc = "rms"
    /\ SeqMax(rms_raw) - SeqMin(rms_raw) # 0
    /\ rms_sound' = NormalizeRms(rms_raw, normalize_rms)
    /\ middle' = ArgMax(rms_sound')
    /\ start' = middle'
    /\ flag' = TRUE
    /\ pc' = "left"
    /\ UNCHANGED <<samples, rms_raw, threshold, threshold_end, normalize_rms,
                   word, end, count, ret>>
    /\ UNCHANGED bvars

\* lines 88-90: the frame is above the threshold
LeftExpand ==
    /\ pc = "left"
    /\ start >= 0 /\ flag
    /\ Gt(Rms(start), threshold)
    /\ start' = start - 1
    /\ UNCHANGED <<samples, rms_raw, rms_sound, threshold, threshold_end,
                   normalize_rms, word, middle, end, flag, count, pc, ret>>
    /\ UNCHANGED bvars

\* lines 91-94: the frame is not above the threshold, count the pause
LeftProbe ==
    /\ pc = "left"
    /\ start >= 0 /\ flag
    /\ ~Gt(Rms(start), threshold)
    /\ count' = ProbeLeft(rms_sound, start, threshold, 0)
    /\ pc' = "left_probed"
    /\ UNCHANGED <<samples, rms_raw, rms_sound, threshold, threshold_end,
                   normalize_rms, word, middle, start, end, flag, ret>>
    /\ UNCHANGED bvars

\* lines 95-98: stop at the pause or step over it
LeftDecide ==
    /\ pc = "left_probed"
    /\ IF start - count = -1 \/ count = MAX_PAUSE_FRAMES
       THEN flag' = FALSE /\ start' = start
       ELSE flag' = flag /\ start' = start - count
    /\ pc' = "left"
    /\ UNCHANGED <<samples, rms_raw, rms_sound, threshold, threshold_end,
                   normalize_rms, word, middle, end, count, ret>>
    /\ UNCHANGED bvars

\* line 88 false, lines 101-102
LeftExit ==
    /\ pc = "left"
    /\ ~(start >= 0 /\ flag)
    /\ end' = middle
    /\ flag' = TRUE
    /\ pc' = "right"
    /\ UNCHANGED <<samples, rms_raw, rms_sound, threshold, threshold_end,
                   normalize_rms, word, middle, start, count, ret>>
    /\ UNCHANGED bvars

\* lines 103-105
RightExpand ==
    /\ pc = "right"
    /\ end < Size /\ flag
    /\ Gt(Rms(end), threshold_end)
    /\ end' = end + 1
    /\ UNCHANGED <<samples, rms_raw, rms_sound, threshold, threshold_end,
                   normalize_rms, word, middle, start, flag, count, pc, ret>>
    /\ UNCHANGED bvars

\* lines 106-109
RightProbe ==
    /\ pc = "right"
    /\ end < Size /\ flag
    /\ ~Gt(Rms(end), threshold_end)
    /\ count' = ProbeRight(rms_sound, end, threshold_end, 0)
    /\ pc' = "right_probed"
    /\ UNCHANGED <<samples, rms_raw, rms_sound, threshold, threshold_end,
                   normalize_rms, word, middle, start, end, flag, ret>>
    /\ UNCHANGED bvars

\* lines 110-113
RightDecide ==
    /\ pc = "right_probed"
    /\ IF end + count = Size \/ count = MAX_PAUSE_FRAMES
       THEN flag' = FALSE /\ end' = end
       ELSE flag' = flag /\ end' = end + count
    /\ pc' = "right"
    /\ UNCHANGED <<samples, rms_raw, rms_sound, threshold, threshold_end,
                   normalize_rms, word, middle, start, count, ret>>
    /\ UNCHANGED bvars

\* line 103 false: the boundary search is over
RightExit ==
    /\ pc = "right"
    /\ ~(end < Size /\ flag)
    /\ pc' = "refine"
    /\ UNCHANGED <<samples, rms_raw, rms_sound, threshold, threshold_end,
                   normalize_rms, word, middle, start, end, flag, count, ret>>
    /\ UNCHANGED bvars

\* lines 115-119
Refine ==
    /\ pc = "refine"
    /\ end' = ExtendEnd(end, Size, word)
    /\ pc' = "slice"
    /\ UNCHANGED <<samples, rms_raw, rms_sound, threshold, threshold_end,
                   normalize_rms, word, middle, start, flag, count, ret>>
    /\ UNCHANGED bvars

\* lines 121-123
Return ==
    /\ pc = "slice"
    /\ ret' = SliceResult(start, end, samples)
    /\ pc' = "returned"
    /\ UNCHANGED <<samples, rms_raw, rms_sound, threshold, threshold_end,
                   normalize_rms, word, middle, start, end, flag, count>>
    /\ UNCHANGED bvars

SliceNext ==
    \/ ReturnInvalid
    \/ FindMiddle
    \/ LeftExpand
    \/ LeftProbe
    \/ LeftDecide
    \/ LeftExit
    \/ RightExpand
    \/ RightProbe
    \/ RightDecide
    \/ RightExit
    \/ Refine
    \/ Return

\* ------------------------------------------------------------------------
\* The batch: main, copy_directory_with_wav_processing, process_wav_file
\* ------------------------------------------------------------------------
\* process_wav_file has not returned yet
NoReturn == [kind |-> "no return"]

\* the rows (Word, Modified Duration) of the stimuli table, durations in
\* hundredths of a second
StimuliRows ==
    << <<Word_No, 120>>, <<Word_NoAcute, 100>>, <<Word_en, 150>> >>

\* df.set_index('Word')['Modified Duration'].to_dict(): the items of the
\* dictionary in insertion order, a repeated key keeping its last value
RECURSIVE ToDict(_)
ToDict(rows) ==
    IF rows = <<>> THEN <<>>
    ELSE LET n == Len(rows)
             d == ToDict(SubSeq(rows, 1, n - 1))
             r == rows[n]
         IN  IF \E j \in 1..Len(d) : d[j][1] = r[1]
             THEN [j \in 1..Len(d) |-> IF d[j][1] = r[1] THEN r ELSE d[j]]
             ELSE Append(d, r)

\* {unidecode(key).lower(): value for key, value in robot_times.items()}
RECURSIVE NormalizeKeys(_)
NormalizeKeys(items) ==
    IF items = <<>> THEN <<>>
    ELSE LET n == Len(items)
             d == NormalizeKeys(SubSeq(items, 1, n - 1))
             k == NormalizeKey(items[n][1])
         IN  [w \in (DOMAIN d) \cup {k} |-> IF w = k THEN items[n][2] ELSE d[w]]

\* the triple returned by the slicer for one file, times in hundredths of a
\* second: the sentinel (-1, -1, -1) or a clip with its onset and duration
InvalidTriple == [sound |-> -1, onset |-> -100, total_duration |-> -100]

\* the trimmed waveform is represented by its length
Clip(o, d) == [sound |-> d, onset |-> o, total_duration |-> d]

SliceOutcomes ==
    {InvalidTriple, Clip(50, 30), Clip(300, 300), Clip(49, 30),
     Clip(301, 300), Clip(50, 29), Clip(300, 301)}

FileWords == {Word_no, Word_No, Word_en, Word_un}

\* a file of the source tree: its extension, whether its name holds a
\* parenthesized token (re.search matches), the token, and what the slicer
\* returns on its audio
FileKinds ==
    { [ext |-> ".wav", match |-> TRUE, word |-> w, slice |-> r] :
        w \in FileWords, r \in SliceOutcomes }
        \cup { [ext |-> ".wav", match |-> FALSE, word |-> <<>>,
                slice |-> Clip(50, 30)],
               [ext |-> ".WAV", match |-> TRUE, word |-> Word_no,
                slice |-> Clip(50, 30)],
               [ext |-> ".txt", match |-> FALSE, word |-> <<>>,
                slice |-> InvalidTriple] }

FileLists == UNION { [1..k -> FileKinds] : k \in 0..MaxFiles }

\* file.lower().endswith('.wav')
LowerEndsWithWav(f) == (IF f.ext = ".WAV" THEN ".wav" ELSE f.ext) = ".wav"

\* os.path.join(output_directory, relative_path) of the k-th file
OutputFile(k) == <<"destination", k>>

\* an acceptance test that rejects a reaction time of exactly 2 seconds
ToIncludeOpenAtTwo(real_onset, total_duration) ==
    ~(real_onset >= 200 \/ real_onset < -50
        \/ total_duration < 30 \/ total_duration > 300)

\* line 148, in hundredths of a second
ToInclude(real_onset, total_duration) ==
    ~(real_onset > 200 \/ real_onset < -50
        \/ total_duration < 30 \/ total_duration > 300)

\* process_wav_file on the k-th file: what it returns or raises
ProcessWavFile(f, k, robot) ==
    IF f.ext # ".wav" THEN [kind |-> "none"]
    ELSE IF ~f.match THEN [kind |-> "raise", error |-> "AttributeError"]
    ELSE IF f.word \notin DOMAIN robot THEN [kind |-> "raise", error |-> "KeyError"]
    ELSE LET real_onset == f.slice.onset - robot[f.word]
         IN  [kind |-> "return",
              features |-> <<OutputFile(k), real_onset, f.slice.total_duration>>,
              to_include |-> ToInclude(real_onset, f.slice.total_duration),
              sound |-> f.slice.sound]

\* lines 155-158: sf.write when included
WriteOutput(w, r) ==
    IF r.to_include THEN w \cup {<<r.features[1], r.sound>>} ELSE w

\* an aggregation that ignores the inclusion flag
AppendAlways(df, r) == Append(df, r.features)

\* lines 194-195
AppendFeatures(df, r) ==
    IF r.to_include THEN Append(df, r.features) ELSE df

BatchInit ==
    /\ stimuli = StimuliRows
    /\ stimuli_ok \in BOOLEAN
    /\ source_ok \in BOOLEAN
    /\ destination_exists \in BOOLEAN
    /\ files \in FileLists
    /\ ~source_ok => files = <<>>
    /\ robot_times = <<>>
    /\ pos = 0
    /\ file_count = 0
    /\ slice_features = <<>>
    /\ written = {}
    /\ last_ret = NoReturn
    /\ csv = <<>>
    /\ bpc = "main"
    /\ error = "none"
    \* the slicer at rest
    /\ samples = 0
    /\ rms_raw = <<>>
    /\ rms_sound = <<>>
    /\ threshold = THRESHOLD
    /\ threshold_end = THRESHOLD_END
    /\ normalize_rms = NORMALIZE_RMS
    /\ word = <<>>
    /\ middle = 0
    /\ start = 0
    /\ end = 0
    /\ flag = TRUE
    /\ count = 0
    /\ pc = "idle"
    /\ ret = <<>>

\* lines 205-207
ReadStimuli ==
    /\ bpc = "main"
    /\ stimuli_ok
    /\ robot_times' = NormalizeKeys(ToDict(stimuli))
    /\ bpc' = "copytree"
    /\ UNCHANGED <<stimuli, stimuli_ok, source_ok, destination_exists, files,
                   pos, file_count, slice_features, written, last_ret, csv,
                   error>>
    /\ UNCHANGED svars

\* line 205: pd.read_excel raises
ReadStimuliFails ==
    /\ bpc = "main"
    /\ ~stimuli_ok
    /\ bpc' = "aborted"
    /\ error' = "FileNotFoundError"
    /\ UNCHANGED <<stimuli, stimuli_ok, source_ok, destination_exists, files,
                   robot_times, pos, file_count, slice_features, written,
                   last_ret, csv>>
    /\ UNCHANGED svars

\* lines 173-177
CopyTree ==
    /\ bpc = "copytree"
    /\ source_ok
    /\ ~destination_exists
    /\ file_count' = 0
    /\ slice_features' = <<>>
    /\ bpc' = "walk"
    /\ UNCHANGED <<stimuli, stimuli_ok, source_ok, destination_exists, files,
                   robot_times, pos, written, last_ret, csv, error>>
    /\ UNCHANGED svars

\* line 173: shutil.copytree raises, the source directory is missing
CopyTreeFails ==
    /\ bpc = "copytree"
    /\ ~source_ok
    /\ bpc' = "aborted"
    /\ error' = "FileNotFoundError"
    /\ UNCHANGED <<stimuli, stimuli_ok, source_ok, destination_exists, files,
                   robot_times, pos, file_count, slice_features, written,
                   last_ret, csv>>
    /\ UNCHANGED svars

\* line 173: shutil.copytree raises, the destination directory exists
\* (os.makedirs without exist_ok, after the source was listed)
CopyTreeDestinationExists ==
    /\ bpc = "copytree"
    /\ source_ok
    /\ destination_exists
    /\ bpc' = "aborted"
    /\ error' = "FileExistsError"
    /\ UNCHANGED <<stimuli, stimuli_ok, source_ok, destination_exists, files,
                   robot_times, pos, file_count, slice_features, written,
                   last_ret, csv>>
    /\ UNCHANGED svars

\* line 182 false
SkipFile ==
    /\ bpc = "walk"
    /\ pos < Len(files)
    /\ ~LowerEndsWithWav(files[pos + 1])
    /\ pos' = pos + 1
    /\ UNCHANGED <<stimuli, stimuli_ok, source_ok, destination_exists, files,
                   robot_times, file_count, slice_features, written, last_ret,
                   csv, bpc, error>>
    /\ UNCHANGED svars

\* lines 182-197, process_wav_file returning its pair
ProcessFile ==
    /\ bpc = "walk"
    /\ pos < Len(files)
    /\ LowerEndsWithWav(files[pos + 1])
    /\ LET r == ProcessWavFile(files[pos + 1], pos + 1, robot_times)
       IN  /\ r.kind = "return"
           /\ last_ret' = r
           /\ written' = WriteOutput(written, r)
           /\ slice_features' = AppendFeatures(slice_features, r)
    /\ file_count' = file_count + 1
    /\ pos' = pos + 1
    /\ UNCHANGED <<stimuli, stimuli_ok, source_ok, destination_exists, files,
                   robot_times, csv, bpc, error>>
    /\ UNCHANGED svars

\* lines 139 and 146: process_wav_file raises
ProcessFileRaises ==
    /\ bpc = "walk"
    /\ pos < Len(files)
    /\ LowerEndsWithWav(files[pos + 1])
    /\ LET r == ProcessWavFile(files[pos + 1], pos + 1, robot_times)
       IN  /\ r.kind = "raise"
           /\ error' = r.error
    /\ bpc' = "aborted"
    /\ UNCHANGED <<stimuli, stimuli_ok, source_ok, destination_exists, files,
                   robot_times, pos, file_count, slice_features, written,
                   last_ret, csv>>
    /\ UNCHANGED svars

\* lines 130-131 and 192: process_wav_file returns None, unpacking it raises
UnpackNone ==
    /\ bpc = "walk"
    /\ pos < Len(files)
    /\ LowerEndsWithWav(files[pos + 1])
    /\ ProcessWavFile(files[pos + 1], pos + 1, robot_times).kind = "none"
    /\ bpc' = "aborted"
    /\ error' = "TypeError"
    /\ UNCHANGED <<stimuli, stimuli_ok, source_ok, destination_exists, files,
                   robot_times, pos, file_count, slice_features, written,
                   last_ret, csv>>
    /\ UNCHANGED svars

\* lines 198 and 210
WriteCsv ==
    /\ bpc = "walk"
    /\ pos = Len(files)
    /\ csv' = slice_features
    /\ bpc' = "done"
    /\ UNCHANGED <<stimuli, stimuli_ok, source_ok, destination_exists, files,
                   robot_times, pos, file_count, slice_features, written,
                   last_ret, error>>
    /\ UNCHANGED svars

BatchNext ==
    \/ ReadStimuli
    \/ ReadStimuliFails
    \/ CopyTree
    \/ CopyTreeFails
    \/ CopyTreeDestinationExists
    \/ SkipFile
    \/ ProcessFile
    \/ ProcessFileRaises
    \/ UnpackNone
    \/ WriteCsv

\* ------------------------------------------------------------------------
\* Specifications
\* ------------------------------------------------------------------------

\* one call of the slicer; main has not started
Init ==
    /\ rms_raw \in Envelopes
    /\ samples \in ClipLengths(Len(rms_raw))
    /\ rms_sound = <<>>
    /\ threshold \in ThresholdValues
    /\ threshold_end \in ThresholdValues
    /\ normalize_rms \in BOOLEAN
    /\ word \in SliceWords
    /\ middle = 0
    /\ start = 0
    /\ end = 0
    /\ flag = TRUE
    /\ count = 0
    /\ pc = "rms"
    /\ ret = <<>>
    \* the batch before main runs
    /\ stimuli = StimuliRows
    /\ stimuli_ok = TRUE
    /\ source_ok = TRUE
    /\ destination_exists = FALSE
    /\ files = <<>>
    /\ robot_times = <<>>
    /\ pos = 0
    /\ file_count = 0
    /\ slice_features = <<>>
    /\ written = {}
    /\ last_ret = NoReturn
    /\ csv = <<>>
    /\ bpc = "main"
    /\ error = "none"

Next == SliceNext

Spec == Init /\ [][Next]_vars

BatchSpec == BatchInit /\ [][BatchNext]_vars

\* ------------------------------------------------------------------------
\* Properties of the slicer, under Spec
\* ------------------------------------------------------------------------
\* the boundary search is over and the lexical extension has not run yet
BoundaryFound == pc = "refine"

\* index of the envelope's global maximum, the first one if it repeats
FirstMaxIndex ==
    CHOOSE i \in 0..(Len(rms_raw) - 1) :
        /\ \A j \in 1..Len(rms_raw) : rms_raw[j] <= rms_raw[i + 1]
        /\ \A j \in 1..i : rms_raw[j] < rms_raw[i + 1]

\* length of the run of frames strictly below thr that starts at frame i and
\* extends towards frame 0
RECURSIVE BelowRunLeft(_, _, _)
BelowRunLeft(s, i, thr) ==
    IF i >= 0 /\ Lt(s[i + 1], thr) THEN 1 + BelowRunLeft(s, i - 1, thr) ELSE 0

\* the same towards the last frame
RECURSIVE BelowRunRight(_, _, _)
BelowRunRight(s, i, thr) ==
    IF i < Len(s) /\ Lt(s[i + 1], thr) THEN 1 + BelowRunRight(s, i + 1, thr) ELSE 0

FinalIsVowel(w) ==
    /\ w[Len(w)].base \in {"a", "e", "i", "o", "u"}
    /\ ~w[Len(w)].upper
    /\ ~w[Len(w)].accent

Min(a, b) == IF a <= b THEN a ELSE b

\* C1: when the boundary search ends, 0 <= start_frame and
\* end_frame <= n - 1, n the length of the envelope.
C1_BoundaryWithinEnvelope ==
    BoundaryFound => (0 <= start /\ end <= Size - 1)

\* C2: the boundary search returns start_frame <= middle_frame <= end_frame,
\* middle_frame being the first index of the envelope's global maximum.
C2_MiddleWithinBoundary ==
    BoundaryFound =>
        /\ middle = FirstMaxIndex
        /\ start <= FirstMaxIndex
        /\ FirstMaxIndex <= end

\* the maximum is attained twice and the search moved away from it on both sides
C2_Witness ==
    /\ BoundaryFound
    /\ start < FirstMaxIndex
    /\ FirstMaxIndex < end
    /\ \E j \in (FirstMaxIndex + 2)..Len(rms_raw) :
           rms_raw[j] = rms_raw[FirstMaxIndex + 1]

\* C3, as the code has it: in either direction a run of r >= 1 frames below
\* the threshold, met at the scan position, is stepped over when
\* r < MAX_PAUSE_FRAMES and the run ends inside the envelope, and the scan goes
\* on from the frame after the run; otherwise the expansion ends and the
\* boundary stays at the scan position, which is the first frame of the run.
C3_PauseBridging ==
    [][ /\ pc = "left_probed" =>
            LET r == BelowRunLeft(rms_sound, start, threshold)
            IN  r >= 1 =>
                  IF r < MAX_PAUSE_FRAMES /\ start - r >= 0
                  THEN start' = start - r /\ flag' /\ pc' = "left"
                  ELSE start' = start /\ ~flag' /\ pc' = "left"
        /\ (pc = "left" /\ ~flag) => (start' = start /\ pc' = "right")
        /\ pc = "right_probed" =>
            LET r == BelowRunRight(rms_sound, end, threshold_end)
            IN  r >= 1 =>
                  IF r < MAX_PAUSE_FRAMES /\ end + r < Size
                  THEN end' = end + r /\ flag' /\ pc' = "right"
                  ELSE end' = end /\ ~flag' /\ pc' = "right"
        /\ (pc = "right" /\ ~flag) => (end' = end /\ pc' = "refine")
      ]_vars

\* a left expansion that met a pause of MAX_PAUSE_FRAMES frames after at
\* least one frame above the threshold, and ended on the pause's first frame
C3_Witness ==
    /\ BoundaryFound
    /\ 0 <= start /\ start < middle
    /\ BelowRunLeft(rms_sound, start, threshold) >= MAX_PAUSE_FRAMES
    /\ Gt(Rms(start + 1), threshold)

\* C3 as stated: a run shorter than MAX_PAUSE_FRAMES that ends inside the
\* envelope is stepped over; a longer run, or one that reaches the edge, ends
\* the expansion with the boundary at the frame preceding the run.
C3_BoundaryPrecedesPause ==
    [][ /\ (pc = "left_probed" /\ start < middle) =>
            LET r == BelowRunLeft(rms_sound, start, threshold)
            IN  r >= 1 =>
                  IF r < MAX_PAUSE_FRAMES /\ start - r >= 0
                  THEN start' = start - r /\ flag'
                  ELSE start' = start + 1 /\ ~flag'
        /\ (pc = "right_probed" /\ end > middle) =>
            LET r == BelowRunRight(rms_sound, end, threshold_end)
            IN  r >= 1 =>
                  IF r < MAX_PAUSE_FRAMES /\ end + r < Size
                  THEN end' = end + r /\ flag'
                  ELSE end' = end - 1 /\ ~flag'
      ]_vars

\* C5: the refiner leaves end_frame unchanged when the word's final
\* character is one of a, e, i, o, u, and otherwise sets it to
\* min(end_frame + 12, n - 1).
C5_LexicalExtension ==
    [][ pc = "refine" =>
            end' = IF FinalIsVowel(word) THEN end
                   ELSE Min(end + 12, Size - 1)
      ]_vars

\* a consonant-final word whose end was extended without reaching the clamp
C5_Witness ==
    /\ pc = "slice"
    /\ ~FinalIsVowel(word)
    /\ middle + 12 <= end
    /\ end < Size - 1

\* C10: every iteration of either expansion loop moves the frame index at
\* least one frame further from middle or ends the scan.
C10_EveryIterationProgresses ==
    [][ /\ (pc = "left" /\ pc' = "left") => start' < start
        /\ pc = "left_probed" => (start' < start \/ ~flag')
        /\ (pc = "right" /\ pc' = "right") => end' > end
        /\ pc = "right_probed" => (end' > end \/ ~flag')
      ]_vars

\* ------------------------------------------------------------------------
\* Properties of the batch, under BatchSpec
\* ------------------------------------------------------------------------
\* the index of the file last handed to process_wav_file with success
LastProcessed == last_ret.features[1][2]

ClosedWindow(reaction_time, total_duration) ==
    /\ -50 <= reaction_time /\ reaction_time <= 200
    /\ 30 <= total_duration /\ total_duration <= 300

\* the rows the report must hold after the first k files of the walk
RECURSIVE ExpectedRows(_)
ExpectedRows(k) ==
    IF k = 0 THEN <<>>
    ELSE LET f == files[k]
             rt == f.slice.onset - robot_times[f.word]
         IN  IF f.ext = ".wav" /\ ClosedWindow(rt, f.slice.total_duration)
             THEN Append(ExpectedRows(k - 1),
                         <<OutputFile(k), rt, f.slice.total_duration>>)
             ELSE ExpectedRows(k - 1)

\* C4: a file is included if and only if -0.5 <= reaction_time <= 2.0 and
\* 0.3 <= total_duration <= 3.0, reaction_time being onset_time minus the
\* reference duration.
C4_ClosedIntervals ==
    last_ret.kind = "return" =>
        LET f == files[LastProcessed]
        IN  /\ last_ret.features[2] = f.slice.onset - robot_times[f.word]
            /\ last_ret.features[3] = f.slice.total_duration
            /\ last_ret.to_include <=>
                   ClosedWindow(last_ret.features[2], last_ret.features[3])

\* two files at the endpoints of both intervals, both included
C4_Witness ==
    /\ Len(slice_features) = 2
    /\ slice_features[1][2] = -50 /\ slice_features[1][3] = 30
    /\ slice_features[2][2] = 200 /\ slice_features[2][3] = 300

\* C6: a file with a degenerate envelope is never written, never added to
\* the report, and processing it does not abort the batch, whatever its
\* target word.
C6_DegenerateFileSkipped ==
    \A k \in 1..Len(files) :
        (files[k].ext = ".wav" /\ files[k].match
            /\ files[k].slice = InvalidTriple) =>
            /\ \A w \in written : w[1] # OutputFile(k)
            /\ \A j \in 1..Len(slice_features) :
                   slice_features[j][1] # OutputFile(k)
            /\ ~(bpc = "aborted" /\ error = "KeyError" /\ pos = k - 1)

\* C7: a waveform is written for a file if and only if its inclusion flag is
\* true, and the report holds exactly one row per included file and none for
\* an excluded one, in processing order.
C7_ReportMatchesIncluded ==
    /\ slice_features = ExpectedRows(pos)
    /\ written = { <<ExpectedRows(pos)[j][1], ExpectedRows(pos)[j][3]>> :
                     j \in 1..Len(ExpectedRows(pos)) }
    /\ last_ret.kind = "return" =>
           (last_ret.to_include <=>
                \E w \in written : w[1] = last_ret.features[1])
    /\ bpc = "done" => csv = ExpectedRows(Len(files))

\* a finished batch of one included and one excluded audio file
C7_Witness ==
    /\ bpc = "done"
    /\ Len(files) = 2
    /\ files[1].ext = ".wav" /\ files[2].ext = ".wav"
    /\ Len(csv) = 1
    /\ Cardinality(written) = 1

\* C8: no per-file condition stops the batch: it stops only when loading
\* the configuration fails (the reference table or the source directory is
\* missing) or the directory tree cannot be set up.
C8_OnlyConfigurationStopsBatch ==
    bpc = "aborted" => (~stimuli_ok \/ ~source_ok \/ destination_exists)

\* C9: the target word is normalized before the lookup, so a label whose
\* normalized form is a key of the reference durations retrieves that key's
\* duration.
C9_LookupOnNormalizedWord ==
    \A k \in 1..Len(files) :
        (bpc \in {"walk", "done", "aborted"} /\ error # "FileNotFoundError"
            /\ error # "FileExistsError"
            /\ files[k].ext = ".wav" /\ files[k].match
            /\ NormalizeKey(files[k].word) \in DOMAIN robot_times) =>
            /\ ~(bpc = "aborted" /\ error = "KeyError" /\ pos = k - 1)
            /\ (last_ret.kind = "return" /\ LastProcessed = k) =>
                   last_ret.features[2] =
                       files[k].slice.onset
                           - robot_times[NormalizeKey(files[k].word)]

====
